---------------------------- MODULE Spec2Model ----------------------------
(***************************************************************************)
(* Model of the ZMK speed-curve input processor (src/src/speed_curve.c).   *)
(*                                                                         *)
(* The processor keeps one runtime record per device instance              *)
(* (is_active, start_time, last_x_direction, last_y_direction) and         *)
(* rewrites the value of every matching relative-motion event to a         *)
(* movement derived from a piecewise-linear time/speed curve.              *)
(***************************************************************************)
EXTENDS Integers, Sequences, FiniteSets

VARIABLES
    node,     \* the devicetree node the instance is built from
    cfg,      \* const struct zip_speed_curve_config of the instance
    data,     \* struct zip_speed_curve_data as speed_curve.c uses it
    uptime,   \* the value k_uptime_get() returns now (ms)
    ev,       \* the last event handed to handle_event, as it left the handler
    hist,     \* observation history of the event stream (not program state)
    q         \* one evaluation of calculate_speed (SpecCurve)

vars == <<node, cfg, data, uptime, ev, hist, q>>

---------------------------------------------------------------------------
(* Bounds of the model *)

\* the clock is observed up to this uptime
MaxTime == 5
\* largest advance of the clock between two events
MaxTick == 2
\* largest advance of the clock between the two k_uptime_get() reads
\* of one handler call (lines 129 and 135)
MaxSkew == 1
\* elapsed times 0-1 .. MaxElapsed are tried on calculate_speed
MaxElapsed == 13
\* runs of same-direction events are counted up to this length
MaxRun == 6

---------------------------------------------------------------------------
(* C integer arithmetic *)

Abs(x) == IF x < 0 THEN 0 - x ELSE x

\* a division rounding toward minus infinity
TruncDivFloor(a, b) == a \div b

\* C's '/' on integers truncates toward zero (b # 0)

TruncDiv(a, b) ==
    IF (a >= 0) = (b > 0)
    THEN Abs(a) \div Abs(b)
    ELSE 0 - (Abs(a) \div Abs(b))

\* int32 * int (the promoted uint16 trigger period).  A product outside the
\* int range is an overflow of a signed int; the 32-bit multiply the build
\* emits keeps the low 32 bits, two's complement, which is what this gives.
\* The product is formed from 16-bit halves of a and 8-bit halves of b so
\* that no intermediate leaves the 32-bit range.
MulWrap32(a, b) ==
    LET AL == a % 65536
        AH == (a \div 65536) % 65536
        bh == b \div 256
        bl == b % 256
        X  == AL * bh
        Y  == AL * bl
        lowsum == ((X % 256) * 256) + Y
        low    == lowsum % 65536
        carry  == (lowsum \div 65536) + (X \div 256)
        H  == ((((AH * bh) % 256) * 256) + ((AH * bl) % 65536) + carry) % 65536
    IN  IF H >= 32768 THEN ((H - 65536) * 65536) + low ELSE (H * 65536) + low

\* the range of int and int32_t
INT32_MAX == 2147483647
INT32_MIN == (0 - INT32_MAX) - 1

\* a + b in 32-bit int.  A sum outside the range is an overflow of a signed
\* int; the builds keep the low 32 bits, two's complement.  No intermediate
\* leaves the 32-bit range.
AddWrap32(a, b) ==
    IF a >= 0 /\ b >= 0 /\ a > INT32_MAX - b
    THEN ((a - INT32_MAX) - 1) + ((b - INT32_MAX) - 1)
    ELSE IF a < 0 /\ b < 0 /\ a < INT32_MIN - b
    THEN ((a + INT32_MAX) + 1) + ((b + INT32_MAX) + 1)
    ELSE a + b

\* a - b in 32-bit int, with the same wrap
SubWrap32(a, b) ==
    IF b = INT32_MIN THEN AddWrap32(AddWrap32(a, INT32_MAX), 1)
    ELSE AddWrap32(a, 0 - b)

\* the low 32 bits of -x
NegWrap32(x) == IF x = INT32_MIN THEN x ELSE 0 - x

\* -|x|, which unlike |x| is in the 32-bit range for every x
NegAbs(x) == IF x > 0 THEN 0 - x ELSE x

\* The unsigned quotient and remainder of A * B by D, for A = -nA, D = -nD
\* and 0 <= B, as <<q, r>> with A * B = q * D + r and 0 <= r < D: q is kept
\* modulo 2^32 (two's complement), as the conversion to int32_t keeps it.
\* qA and rA are the quotient and remainder of A by D.  B is taken bit by
\* bit so that no intermediate leaves the 32-bit range: MulDivAdd adds
\* A * bit to the doubled <<q2, r1>>.
MulDivAdd(q2, r1, bit, qA, rA, nD) ==
    IF bit = 0 THEN <<q2, r1>>
    ELSE IF r1 + (nD + rA) >= 0
    THEN <<AddWrap32(q2, AddWrap32(qA, 1)), r1 + (nD + rA)>>
    ELSE <<AddWrap32(q2, qA), r1 + rA>>

RECURSIVE MulDivBits(_, _, _, _)
MulDivBits(B, qA, rA, nD) ==
    IF B = 0 THEN <<0, 0>>
    ELSE LET p == MulDivBits(B \div 2, qA, rA, nD)
         IN  IF p[2] + (nD + p[2]) >= 0
             THEN MulDivAdd(AddWrap32(AddWrap32(p[1], p[1]), 1),
                            p[2] + (nD + p[2]), B % 2, qA, rA, nD)
             ELSE MulDivAdd(AddWrap32(p[1], p[1]), p[2] + p[2],
                            B % 2, qA, rA, nD)

\* <<q, r>> for |a| * b by |d| (0 <= b, d # 0), q modulo 2^32
MulDivAbs(a, b, d) ==
    LET nA == NegAbs(a)
        nD == NegAbs(d)
        qA == IF nD = 0 - 1 THEN NegWrap32(nA) ELSE nA \div nD
        rA == IF nD = 0 - 1 THEN 0 ELSE ((nA \div nD) * nD) - nA
    IN  MulDivBits(b, qA, rA, nD)

\* (int32_t)((int64_t)a * b / d): the 64-bit product and its quotient
\* truncated toward zero are exact; the low 32 bits are kept (0 <= b, d # 0)
MulDivTrunc32(a, b, d) ==
    IF (a < 0) = (d < 0) THEN MulDivAbs(a, b, d)[1]
    ELSE NegWrap32(MulDivAbs(a, b, d)[1])

\* the same with a quotient rounded toward minus infinity
MulDivFloor32(a, b, d) ==
    IF (a < 0) = (d < 0) THEN MulDivAbs(a, b, d)[1]
    ELSE IF MulDivAbs(a, b, d)[2] = 0 THEN NegWrap32(MulDivAbs(a, b, d)[1])
    ELSE SubWrap32(NegWrap32(MulDivAbs(a, b, d)[1]), 1)

---------------------------------------------------------------------------
(* Configuration *)

\* INPUT_EV_REL of the Zephyr input subsystem, the type the README configures
INPUT_EV_REL == 2
\* "INPUT_REL_X = 0, INPUT_REL_Y = 1" (speed_curve.c line 101)
INPUT_REL_X == 0
INPUT_REL_Y == 1

\* the properties of a devicetree node of the processor; curve_points is
\* the flattened array [time0, speed0, time1, ...]
Node(type, codes, points, period, remainders) ==
    [type |-> type, codes |-> codes, curve_points |-> points,
     trigger_period_ms |-> period, track_remainders |-> remainders]

\* struct zip_speed_curve_config as the instance macro initialises it: no
\* initialiser names track_remainders, so the member is false
Config(type, codes, points, period) ==
    [type |-> type, codes |-> codes, curve_points |-> points,
     trigger_period_ms |-> period, track_remainders |-> FALSE]

\* #define ZIP_SPEED_CURVE_INST(n): the config struct built from a node.
\* The 32-bit devicetree cells are narrowed by the initialisers: type to
\* uint8_t, every code and trigger_period_ms to uint16_t.
ZIP_SPEED_CURVE_INST(n) ==
    Config(n.type % 256,
           IF n.codes = << >> THEN << >>
           ELSE [i \in 1..Len(n.codes) |-> n.codes[i] % 65536],
           n.curve_points,
           n.trigger_period_ms % 65536)

\* the largest time of the three-point tables tried in every order
MaxTableTime == 3

\* curves tried on calculate_speed alone
CurveTables ==
    { <<0, 50, 300, 200, 1000, 800>>,      \* the README's example
      <<0, 50, 3, 200, 10, 800>>,          \* the same shape on a short time axis
      <<0, 100>>,                          \* one point
      <<2, 7>>,                            \* one point, not at time 0
      <<0, 100, 10, 100>>,                 \* README "step function"
      <<0, 10, 3, 10, 7, 11, 12, 11>>,     \* flat pieces, slope below 1
      <<1, 0, 4, 2, 5, 9, 11, 10>>,        \* starts after 0
      <<0, 900, 7, 100>>,                  \* decreasing
      <<0, 0 - 5, 3, 5, 9, 0 - 20>>,       \* negative speeds
      <<2, 3, 12, 40>>,
      <<0, 1, 5, 2, 5, 3, 10, 4>>,         \* not validated: a repeated time
      <<5, 10, 0, 20>>,                    \* not validated: times not sorted
      <<0, 1, 8, 2, 3, 3, 3, 4, 10, 5>>,   \* not validated: both
      <<1, 1, 4, 2, 4, 3, 4, 4, 9, 5>>,    \* not validated: a time three times
      << >>,                               \* no points
      \* speeds and times whose differences leave the 32-bit range
      <<0, 0 - 1073741824, 4, 1073741824>>,
      <<0, 0 - 2000000000, 10, 2000000000>>,
      <<0 - 2000000000, 0, 2000000000, 10>> }
    \cup { <<t0, 10, t1, 20, t2, 30>> :
             t0 \in 0..MaxTableTime, t1 \in 0..MaxTableTime,
             t2 \in 0..MaxTableTime }      \* every order of three small times

\* The devicetree nodes the state machine is run with.  track_remainders is
\* the devicetree property track-remainders; the instance macro never copies
\* it into the config struct and the handler never reads it.
Nodes ==
    { Node(INPUT_EV_REL, <<INPUT_REL_X, INPUT_REL_Y>>,
             <<0, 50, 3, 200, 10, 800>>, 16, FALSE),
      Node(INPUT_EV_REL, <<INPUT_REL_X, INPUT_REL_Y>>,
             <<0, 50>>, 16, TRUE),
      \* cells wider than the struct's members: type 258 is stored as 2,
      \* code 65538 as 2 and period 65636 as 100
      Node(258, <<INPUT_REL_X, INPUT_REL_Y, 65538>>,
             <<1, 0, 4, 2, 5, 9, 11, 10>>, 65636, FALSE),
      Node(INPUT_EV_REL, <<INPUT_REL_X, INPUT_REL_Y>>,
             <<0, 40000, 1, 65537>>, 65535, FALSE),
      \* nothing checks an instance: times not increasing and a period of 0,
      Node(INPUT_EV_REL, <<INPUT_REL_X, INPUT_REL_Y>>,
             <<3, 20, 0, 10>>, 0, FALSE),
      \* and no codes at all
      Node(INPUT_EV_REL, << >>, <<0, 50>>, 16, FALSE) }

\* the instances: DEVICE_DT_INST_DEFINE builds one from every node, unchecked
Configs == { ZIP_SPEED_CURVE_INST(n) : n \in Nodes }

\* the events the host pipeline delivers
EventCodes == {INPUT_REL_X, INPUT_REL_Y, 2}
RawValues  == {0 - 5, 0, 1, 5}
Events ==
    { [type |-> INPUT_EV_REL, code |-> c, value |-> v] :
        c \in EventCodes, v \in RawValues }
    \cup { [type |-> 1, code |-> c, value |-> v] :
        c \in {INPUT_REL_X, INPUT_REL_Y}, v \in {0, 5} }

---------------------------------------------------------------------------
(* speed_curve.c *)

\* static bool code_matches(cfg, code)
code_matches(c, code) ==
    \E i \in 1..Len(c.codes) : c.codes[i] = code

num_points(c) == Len(c.curve_points) \div 2
\* cfg->curve_points[i * 2] and cfg->curve_points[i * 2 + 1], i from 0
point_time(c, i)  == c.curve_points[i * 2 + 1]
point_speed(c, i) == c.curve_points[i * 2 + 2]

\* the loop of lines 62..77: the first i with t0 <= elapsed <= t1, or -1
SegmentsAt(c, elapsed_ms) ==
    { i \in 0..(num_points(c) - 2) :
        /\ elapsed_ms >= point_time(c, i)
        /\ elapsed_ms <= point_time(c, i + 1) }

\* a loop that starts at the second point
segment_index_from_one(c, elapsed_ms) ==
    LET found == SegmentsAt(c, elapsed_ms) \ {0} IN
    IF found = {} THEN 0 - 1
    ELSE CHOOSE i \in found : \A j \in found : i <= j

segment_index(c, elapsed_ms) ==
    IF SegmentsAt(c, elapsed_ms) = {} THEN 0 - 1
    ELSE CHOOSE i \in SegmentsAt(c, elapsed_ms) :
            \A j \in SegmentsAt(c, elapsed_ms) : i <= j

\* an interpolation that forgets to subtract the segment's start time
interpolate_from_zero(t0, s0, t1, s1, elapsed_ms) ==
    AddWrap32(s0, MulDivTrunc32(SubWrap32(s1, s0), elapsed_ms, SubWrap32(t1, t0)))

\* an interpolation whose division rounds toward minus infinity
interpolate_floor(t0, s0, t1, s1, elapsed_ms) ==
    AddWrap32(s0, MulDivFloor32(SubWrap32(s1, s0), elapsed_ms - t0,
                                SubWrap32(t1, t0)))

\* lines 70..75.  t1 - t0 and s1 - s0 are int32_t - int32_t, computed in
\* 32-bit int before they are widened to int64_t; the product, the quotient
\* and the sum with s0 are 64-bit and exact; the result is stored in an
\* int32_t, which keeps the low 32 bits.
interpolate(t0, s0, t1, s1, elapsed_ms) ==
    LET time_delta == SubWrap32(t1, t0)
        speed_delta == SubWrap32(s1, s0)
        elapsed_in_segment == elapsed_ms - t0
    IN  AddWrap32(s0, MulDivTrunc32(speed_delta, elapsed_in_segment, time_delta))

\* a calculate_speed whose high clamp reads the last point's time for its speed
calculate_speed_last_time(c, elapsed_ms) ==
    IF num_points(c) = 0 THEN 0
    ELSE IF elapsed_ms <= point_time(c, 0) THEN point_speed(c, 0)
    ELSE IF elapsed_ms >= point_time(c, num_points(c) - 1)
         THEN point_time(c, num_points(c) - 1)
    ELSE LET i == segment_index(c, elapsed_ms) IN
         IF i < 0 THEN point_speed(c, num_points(c) - 1)
         ELSE interpolate(point_time(c, i), point_speed(c, i),
                          point_time(c, i + 1), point_speed(c, i + 1),
                          elapsed_ms)

\* static int32_t calculate_speed(cfg, elapsed_ms)
calculate_speed(c, elapsed_ms) ==
    IF num_points(c) = 0 THEN 0
    ELSE IF elapsed_ms <= point_time(c, 0) THEN point_speed(c, 0)
    ELSE IF elapsed_ms >= point_time(c, num_points(c) - 1)
         THEN point_speed(c, num_points(c) - 1)
    ELSE LET i == segment_index(c, elapsed_ms) IN
         IF i < 0 THEN point_speed(c, num_points(c) - 1)
         ELSE interpolate(point_time(c, i), point_speed(c, i),
                          point_time(c, i + 1), point_speed(c, i + 1),
                          elapsed_ms)

\* the return statement that calculate_speed leaves by: line 42 ("empty"),
\* 50 ("low"), 58 ("high"), 75 ("segment"; "div0" when time_delta is 0 at
\* line 74) or 80 ("fallback")
speed_path(c, elapsed_ms) ==
    IF num_points(c) = 0 THEN "empty"
    ELSE IF elapsed_ms <= point_time(c, 0) THEN "low"
    ELSE IF elapsed_ms >= point_time(c, num_points(c) - 1) THEN "high"
    ELSE LET i == segment_index(c, elapsed_ms) IN
         IF i < 0 THEN "fallback"
         ELSE IF SubWrap32(point_time(c, i + 1), point_time(c, i)) = 0 THEN "div0"
         ELSE "segment"

\* line 94: the events the handler returns untouched
filtered_and(c, type, code) == type # c.type /\ ~code_matches(c, code)

filtered(c, type, code) == type # c.type \/ ~code_matches(c, code)

\* int8_t current_direction (line 105)
current_direction(value) ==
    IF value > 0 THEN 1 ELSE IF value < 0 THEN 0 - 1 ELSE 0

\* an axis test against the wrong code
is_x_axis_one(code) == code = 1

\* bool is_x_axis (line 101)
is_x_axis(code) == code = 0

\* *last_direction (line 102)
last_direction(d, code) ==
    IF is_x_axis(code) THEN d.last_x_direction ELSE d.last_y_direction

set_last_direction(d, code, dir) ==
    IF is_x_axis(code) THEN [d EXCEPT !.last_x_direction = dir]
    ELSE [d EXCEPT !.last_y_direction = dir]

\* a stop branch that clears is_active without looking at the other axis
stop_data_always_clear(d, code) ==
    [set_last_direction(d, code, 0) EXCEPT !.is_active = FALSE]

\* a stop branch that leaves the activity flag alone
stop_data_never_clear(d, code) == set_last_direction(d, code, 0)

\* lines 108..117: the runtime data after a zero-value event
stop_data(d, code) ==
    LET d1 == set_last_direction(d, code, 0) IN
    IF d1.last_x_direction = 0 /\ d1.last_y_direction = 0
    THEN [d1 EXCEPT !.is_active = FALSE]
    ELSE d1

\* lines 119..123: a direction change clears is_active
direction_changed(d, code, dir) ==
    last_direction(d, code) # 0 /\ last_direction(d, code) # dir

\* a handler that keeps the running clock across a direction change
move_data_keep_clock(d, code, dir, now) ==
    LET d2 == set_last_direction(d, code, dir)
    IN  IF ~d2.is_active
        THEN [d2 EXCEPT !.start_time = now, !.is_active = TRUE]
        ELSE d2

\* a handler that tests is_active before the direction change clears it
move_data_rearm_first(d, code, dir, now) ==
    LET d1 == IF ~d.is_active
              THEN [d EXCEPT !.start_time = now, !.is_active = TRUE] ELSE d
        d2 == IF direction_changed(d, code, dir)
              THEN [d1 EXCEPT !.is_active = FALSE] ELSE d1
    IN  set_last_direction(d2, code, dir)

\* lines 119..132: the runtime data after a nonzero event; now is what
\* k_uptime_get() returns at line 129
move_data(d, code, dir, now) ==
    LET d1 == IF direction_changed(d, code, dir)
              THEN [d EXCEPT !.is_active = FALSE] ELSE d
        d2 == set_last_direction(d1, code, dir)
    IN  IF ~d2.is_active
        THEN [d2 EXCEPT !.start_time = now, !.is_active = TRUE]
        ELSE d2

\* whether the handler takes the branch of lines 128..132 (two clock reads)
rearms(d, code, dir) == ~d.is_active \/ direction_changed(d, code, dir)

\* a conversion without the one-pixel floor of lines 146..148
movement_of_no_floor(c, speed_px_per_sec) ==
    TruncDiv(MulWrap32(speed_px_per_sec, c.trigger_period_ms), 1000)

\* a movement rounded up instead of truncated
movement_of_round_up(c, speed_px_per_sec) ==
    LET movement == TruncDiv(MulWrap32(speed_px_per_sec, c.trigger_period_ms)
                               + 999, 1000)
    IN  IF movement = 0 /\ speed_px_per_sec > 0 THEN 1 ELSE movement

\* lines 141..148: px/event from px/s; the int product wraps at 32 bits
movement_of(c, speed_px_per_sec) ==
    LET movement == TruncDiv(MulWrap32(speed_px_per_sec, c.trigger_period_ms), 1000)
    IN  IF movement = 0 /\ speed_px_per_sec > 0 THEN 1 ELSE movement

Event(type, code, raw, value, path, elapsed_ms, speed, skew) ==
    [type |-> type, code |-> code, raw |-> raw, value |-> value, path |-> path,
     elapsed_ms |-> elapsed_ms, speed |-> speed, skew |-> skew]

---------------------------------------------------------------------------
(* Observation history: what the event stream has been, kept beside the   *)
(* program state so that properties over several events can be stated.    *)

NoRun == [code |-> 0 - 1, dir |-> 0, speed |-> 0, n |-> 0, sum |-> 0]

NoHistory ==
    [stopped |-> {}, after_stop |-> FALSE, kind |-> "none", run |-> NoRun,
     own_clock |-> TRUE]

\* the direction last seen on the axis of a code, and on the other axis
AxisDirection(d, code) ==
    IF code = INPUT_REL_X THEN d.last_x_direction ELSE d.last_y_direction
OtherAxisDirection(d, code) ==
    IF code = INPUT_REL_X THEN d.last_y_direction ELSE d.last_x_direction
Sign(v) == IF v > 0 THEN 1 ELSE IF v < 0 THEN 0 - 1 ELSE 0

\* what a matching nonzero event is to its axis, given the data before it
KindOf(d, code, raw) ==
    IF AxisDirection(d, code) = 0 THEN "start"
    ELSE IF AxisDirection(d, code) = Sign(raw) THEN "continue"
    ELSE "reversal"

\* stopped:    the codes whose latest matching event had value 0
\* after_stop: the latest event is the first nonzero event of its code
\*             since a zero-value event of that code
\* kind:       what the latest event was to its axis
\* run:        the current run of consecutive matching events with one code,
\*             one direction and one speed (kept for instances configured
\*             with track-remainders): its length and the sum of the deltas
\* own_clock:  start_time is the uptime at which the handler was called
\*             with the first event of the current run of nonzero REL_X
\*             events of one direction (d1 is the data after the event);
\*             TRUE while REL_X is stopped
hist_after(h, e, d, d1, tracked, now) ==
    IF e.path = "pass" THEN [h EXCEPT !.kind = "pass", !.after_stop = FALSE]
    ELSE IF e.path = "stop"
    THEN [stopped |-> h.stopped \cup {e.code}, after_stop |-> FALSE,
          kind |-> "stop", run |-> NoRun,
          own_clock |-> IF e.code = INPUT_REL_X THEN TRUE
                        ELSE h.own_clock /\ d1.start_time = d.start_time]
    ELSE LET dir == Sign(e.raw)
             r == h.run
             same == r.code = e.code /\ r.dir = dir /\ r.speed = e.speed
         IN  [stopped |-> h.stopped \ {e.code},
              after_stop |-> e.code \in h.stopped,
              kind |-> KindOf(d, e.code, e.raw),
              own_clock |->
                  IF e.code = INPUT_REL_X /\ KindOf(d, e.code, e.raw) # "continue"
                  THEN d1.start_time = now
                  ELSE IF d.last_x_direction = 0 THEN TRUE
                  ELSE h.own_clock /\ d1.start_time = d.start_time,
              run |-> IF ~tracked THEN NoRun
                      ELSE IF same /\ r.n >= MaxRun THEN r
                      ELSE IF same
                      THEN [r EXCEPT !.n = r.n + 1, !.sum = r.sum + dir * e.value]
                      ELSE [code |-> e.code, dir |-> dir, speed |-> e.speed,
                            n |-> 1, sum |-> dir * e.value]]

---------------------------------------------------------------------------
(* The state machine *)

NoEvent == Event(0, 0, 0, 0, "none", 0, 0, 0)
NoQuery ==
    [a |-> 0, b |-> 0, ra |-> 0, rb |-> 0, pa |-> "none", pb |-> "none",
     done |-> FALSE]

\* static int zip_speed_curve_init(dev)
zip_speed_curve_init ==
    [is_active |-> FALSE, start_time |-> 0,
     last_x_direction |-> 0, last_y_direction |-> 0]

Init ==
    /\ node \in Nodes
    /\ cfg = ZIP_SPEED_CURVE_INST(node)
    /\ data = zip_speed_curve_init
    /\ uptime = 0
    /\ ev = NoEvent
    /\ hist = NoHistory
    /\ q = NoQuery

\* a handler that scales the raw value instead of replacing its magnitude
handled_event_scaled(c, d, now, type, code, value, skew) ==
    IF filtered(c, type, code)
    THEN Event(type, code, value, value, "pass", 0, 0, 0)
    ELSE IF value = 0
    THEN Event(type, code, value, value, "stop", 0, 0, 0)
    ELSE LET d1 == move_data(d, code, current_direction(value), now)
             elapsed_ms == now + skew - d1.start_time
             speed_px_per_sec == calculate_speed(c, elapsed_ms)
         IN  Event(type, code, value, value * movement_of(c, speed_px_per_sec),
                   "move", elapsed_ms, speed_px_per_sec, skew)

\* the event as zip_speed_curve_handle_event leaves it; skew is the time that
\* passes between the clock reads of lines 129 and 135
handled_event(c, d, now, type, code, value, skew) ==
    IF filtered(c, type, code)
    THEN Event(type, code, value, value, "pass", 0, 0, 0)
    ELSE IF value = 0
    THEN Event(type, code, value, value, "stop", 0, 0, 0)
    ELSE LET dir == current_direction(value)
             d1 == move_data(d, code, dir, now)
             current_time == now + skew
             elapsed_ms == current_time - d1.start_time
             speed_px_per_sec == calculate_speed(c, elapsed_ms)
             movement == movement_of(c, speed_px_per_sec)
         IN  Event(type, code, value, dir * movement, "move",
                   elapsed_ms, speed_px_per_sec, skew)

\* the runtime data as zip_speed_curve_handle_event leaves it
handled_data(c, d, now, type, code, value) ==
    IF filtered(c, type, code) THEN d
    ELSE IF value = 0 THEN stop_data(d, code)
    ELSE move_data(d, code, current_direction(value), now)

\* one call of zip_speed_curve_handle_event
zip_speed_curve_handle_event(type, code, value, skew) ==
    /\ uptime + skew <= MaxTime
    /\ skew # 0 =>
          /\ ~filtered(cfg, type, code) /\ value # 0
          /\ rearms(data, code, current_direction(value))
    /\ ev' = handled_event(cfg, data, uptime, type, code, value, skew)
    /\ data' = handled_data(cfg, data, uptime, type, code, value)
    /\ uptime' = uptime + skew
    /\ hist' = hist_after(hist, ev', data, data', node.track_remainders, uptime)
    /\ UNCHANGED <<node, cfg, q>>

\* the monotonic millisecond clock advances between events
Tick ==
    /\ \E d \in 1..MaxTick :
          /\ uptime + d <= MaxTime
          /\ uptime' = uptime + d
    /\ UNCHANGED <<node, cfg, data, ev, hist, q>>

HandleEvent ==
    \E e \in Events, skew \in 0..MaxSkew :
        zip_speed_curve_handle_event(e.type, e.code, e.value, skew)

Next == Tick \/ HandleEvent

Spec == Init /\ [][Next]_vars

---------------------------------------------------------------------------
(* calculate_speed on its own: two elapsed times a <= b against one table *)

ProbeTimes == {150, 299, 300, 301, 650, 999, 1000, 1001}
ElapsedTimes == ((0 - 1)..MaxElapsed) \cup ProbeTimes

InitCurve ==
    /\ node \in { Node(INPUT_EV_REL, <<INPUT_REL_X, INPUT_REL_Y>>, t, 16, FALSE) :
                    t \in CurveTables }
    /\ cfg = ZIP_SPEED_CURVE_INST(node)
    /\ data = zip_speed_curve_init
    /\ uptime = 0
    /\ ev = NoEvent
    /\ hist = NoHistory
    /\ q \in { [NoQuery EXCEPT !.a = a, !.b = b] :
                 a \in ElapsedTimes, b \in ElapsedTimes }
    /\ q.a <= q.b

\* what a call of calculate_speed returns: a division by zero at line 74
\* is a fault, and the call returns no speed (recorded as 0)
returned_speed(c, elapsed_ms) ==
    IF speed_path(c, elapsed_ms) = "div0" THEN 0
    ELSE calculate_speed(c, elapsed_ms)

Evaluate ==
    /\ ~q.done
    /\ q' = [q EXCEPT !.ra = returned_speed(cfg, q.a),
                      !.rb = returned_speed(cfg, q.b),
                      !.pa = speed_path(cfg, q.a),
                      !.pb = speed_path(cfg, q.b),
                      !.done = TRUE]
    /\ UNCHANGED <<node, cfg, data, uptime, ev, hist>>

NextCurve == Evaluate

SpecCurve == InitCurve /\ [][NextCurve]_vars

---------------------------------------------------------------------------
(* Vocabulary of the properties *)

CodeSet(c) == { c.codes[i] : i \in 1..Len(c.codes) }
FirstTime(c)  == c.curve_points[1]
FirstSpeed(c) == c.curve_points[2]
LastTime(c)   == c.curve_points[Len(c.curve_points) - 1]
LastSpeed(c)  == c.curve_points[Len(c.curve_points)]
PointCount(c) == Len(c.curve_points) \div 2
TimeAt(c, k)  == c.curve_points[2 * k - 1]      \* k = 1..PointCount(c)
SpeedAt(c, k) == c.curve_points[2 * k]

\* a CurveTable of the data model: at least one point, times strictly increasing
IsCurveTable(c) ==
    /\ PointCount(c) >= 1
    /\ \A k \in 1..(PointCount(c) - 1) : TimeAt(c, k) < TimeAt(c, k + 1)

SpeedsNonDecreasing(c) ==
    \A k \in 1..(PointCount(c) - 1) : SpeedAt(c, k) <= SpeedAt(c, k + 1)

\* every time and speed of the table is small enough for the products of
\* the claims' formulas to be formed exactly
SmallTable(c) ==
    \A i \in 1..Len(c.curve_points) :
        c.curve_points[i] >= 0 - 30000 /\ c.curve_points[i] <= 30000

\* v is s0, s1 or a value between them
Between(s0, v, s1) == (s0 <= v /\ v <= s1) \/ (s1 <= v /\ v <= s0)

\* k is n / d truncated toward zero
IsTruncatedQuotient(k, n, d) ==
    LET r == n - k * d IN
    /\ Abs(r) < Abs(d)
    /\ r = 0 \/ (r > 0) = (n > 0)

\* speed * period / 1000 truncated toward zero, over the integers: with
\* |speed| = 1000 * a + b it is sign * (a * period + (b * period) / 1000)
ExactDelta(speed, period) ==
    Sign(speed) * (((Abs(speed) \div 1000) * period)
                   + (((Abs(speed) % 1000) * period) \div 1000))

ReadmeCurve == <<0, 50, 300, 200, 1000, 800>>

\* the two evaluations of a finished query, as <<elapsed, speed>>
Answers == IF q.done THEN { <<q.a, q.ra>>, <<q.b, q.rb>> } ELSE {}

\* the latest event was a matching nonzero event, shaped by the handler
Moved == ev.path = "move"

---------------------------------------------------------------------------
(* C1: after a zero-value event of a code, the next nonzero event of that  *)
(* code is computed with elapsed_ms == 0 (no time but the handler's own    *)
(* between its two clock reads) and gets the curve's first-point speed,    *)
(* whatever the other axis did in the meantime.                            *)
C1_StopResetsTiming ==
    (Moved /\ hist.after_stop) =>
        /\ ev.elapsed_ms = ev.skew
        /\ ev.skew = 0 => ev.speed = FirstSpeed(cfg)

(* C2: a nonzero event whose sign is opposite to its axis's last recorded  *)
(* direction re-arms the clock in the same call: its elapsed_ms is only    *)
(* the time between the handler's two clock reads, the start time is the   *)
(* first of those reads, and with no time between them the event gets the  *)
(* curve's initial speed.                                                  *)
C2_ReversalResetsTiming ==
    (Moved /\ hist.kind = "reversal") =>
        /\ ev.elapsed_ms = ev.skew
        /\ data.is_active
        /\ ev.skew = 0 => ev.speed = FirstSpeed(cfg)

\* a reversal late in a ramp: the axis had been moving the other way since
\* an earlier time, and the reversing event is back at the initial speed
C2_Witness ==
    /\ Moved /\ hist.kind = "reversal"
    /\ ev.raw < 0 /\ ev.code = INPUT_REL_X
    /\ data.start_time >= 4 /\ ev.elapsed_ms = 0
    /\ cfg.curve_points = <<0, 50, 3, 200, 10, 800>>
    /\ ev.speed = 50 /\ ev.value = 0 - 1

(* C3: an event on one axis leaves the other axis's activity state and     *)
(* start time unchanged: while the other axis is moving, no event of this  *)
(* axis changes the clock that axis's ramp is measured from.               *)
C3_PerAxisIndependence ==
    [][ (/\ ev'.path \in {"move", "stop"}
         /\ OtherAxisDirection(data, ev'.code) # 0)
        => /\ data'.start_time = data.start_time
           /\ data'.is_active = data.is_active
           /\ OtherAxisDirection(data', ev'.code) = OtherAxisDirection(data, ev'.code)
      ]_vars

(* C4: an event of another type, or of a code outside the configured set,  *)
(* leaves with its value unmodified and changes nothing in the runtime     *)
(* data.                                                                   *)
C4_FilterPassThrough ==
    [][ (ev'.type # cfg.type \/ ev'.code \notin CodeSet(cfg))
        => /\ data' = data
           /\ ev'.value = ev'.raw
      ]_vars

\* a nonzero event of an unconfigured code arrives while a ramp is running
C4_Witness ==
    /\ ev.path = "pass" /\ ev.type = cfg.type /\ ev.code \notin CodeSet(cfg)
    /\ ev.raw = 5 /\ ev.value = 5
    /\ data.is_active /\ data.last_x_direction = 1 /\ uptime > data.start_time

(* C5: on a table of one point or more calculate_speed returns the first   *)
(* point's speed for every elapsed time up to the first point's time, and  *)
(* on a curve table (times strictly increasing) the last point's speed     *)
(* from the last point's time on; a one-point table returns its speed at   *)
(* every time.  (On a table that is not a curve table the low clamp is     *)
(* tested first, so the high clamp holds there for elapsed > first time.)  *)
C5_Clamping ==
    PointCount(cfg) >= 1 =>
        \A ans \in Answers :
            /\ ans[1] <= FirstTime(cfg) => ans[2] = FirstSpeed(cfg)
            /\ (ans[1] >= LastTime(cfg)
                 /\ (IsCurveTable(cfg) \/ ans[1] > FirstTime(cfg)))
                    => ans[2] = LastSpeed(cfg)
            /\ PointCount(cfg) = 1 => ans[2] = FirstSpeed(cfg)

\* both clamps seen on one table whose first point is after time 0
C5_Witness ==
    /\ q.done /\ cfg.curve_points = <<1, 0, 4, 2, 5, 9, 11, 10>>
    /\ q.a = 0 /\ q.ra = 0
    /\ q.b = 13 /\ q.rb = 10

(* C6: on a strictly increasing table, strictly between the first and the  *)
(* last time, calculate_speed is s0 + (s1 - s0) * (elapsed - t0) /         *)
(* (t1 - t0), truncated toward zero, for the consecutive pair around       *)
(* elapsed; at an interior control point it is that point's speed; the     *)
(* README curve gives 50, 125, 200, 800 at 0, 150, 300, 1000.  The value   *)
(* of that formula is never outside the two speeds of the pair; where the  *)
(* table is small the quotient itself is compared.                         *)
C6_Interpolation ==
    IsCurveTable(cfg) =>
        \A ans \in Answers :
            /\ (FirstTime(cfg) < ans[1] /\ ans[1] < LastTime(cfg)) =>
                 \A k \in 1..(PointCount(cfg) - 1) :
                    (TimeAt(cfg, k) <= ans[1] /\ ans[1] <= TimeAt(cfg, k + 1)) =>
                        /\ Between(SpeedAt(cfg, k), ans[2], SpeedAt(cfg, k + 1))
                        /\ SmallTable(cfg) =>
                             IsTruncatedQuotient(
                                ans[2] - SpeedAt(cfg, k),
                                (SpeedAt(cfg, k + 1) - SpeedAt(cfg, k))
                                    * (ans[1] - TimeAt(cfg, k)),
                                TimeAt(cfg, k + 1) - TimeAt(cfg, k))
            /\ \A k \in 1..PointCount(cfg) :
                    ans[1] = TimeAt(cfg, k) => ans[2] = SpeedAt(cfg, k)
            /\ cfg.curve_points = ReadmeCurve =>
                    /\ ans[1] = 0 => ans[2] = 50
                    /\ ans[1] = 150 => ans[2] = 125
                    /\ ans[1] = 300 => ans[2] = 200
                    /\ ans[1] = 1000 => ans[2] = 800

\* the README curve at 150 ms and at its interior point
C6_Witness ==
    /\ q.done /\ cfg.curve_points = ReadmeCurve
    /\ q.a = 150 /\ q.ra = 125
    /\ q.b = 300 /\ q.rb = 200

(* C7: on a table with strictly increasing times and non-decreasing        *)
(* speeds, calculate_speed is non-decreasing in the elapsed time.          *)
C7_Monotonic ==
    (q.done /\ IsCurveTable(cfg) /\ SpeedsNonDecreasing(cfg)) => q.ra <= q.rb

\* two times in different segments of a rising table (q.a <= q.b always)
C7_Witness ==
    /\ q.done /\ cfg.curve_points = <<1, 0, 4, 2, 5, 9, 11, 10>>
    /\ q.a = 3 /\ q.b = 5 /\ q.ra = 1 /\ q.rb = 9

(* C8: with track_remainders off, a nonzero matching event whose speed     *)
(* is > 0 leaves with |value| >= 1, whatever the trigger period and the    *)
(* curve speed.                                                            *)
C8_MinimumMotion ==
    (Moved /\ ~node.track_remainders /\ ev.speed > 0) => Abs(ev.value) >= 1

\* 50 px/s at 16 ms is 0.8 px: the event leaves with one pixel
C8_Witness ==
    /\ Moved /\ ~node.track_remainders /\ ~cfg.track_remainders
    /\ cfg.trigger_period_ms = 16 /\ ev.speed = 50
    /\ ev.raw = 0 - 5 /\ ev.value = 0 - 1

(* C9: with track_remainders on, over N consecutive same-direction events  *)
(* of one axis at constant speed s the sum of the emitted deltas stays     *)
(* within 1 of s * trigger_period_ms / 1000 * N.                           *)
C9_RemainderConservation ==
    (node.track_remainders /\ hist.run.n > 0) =>
        Abs(1000 * hist.run.sum
            - hist.run.speed * cfg.trigger_period_ms * hist.run.n) <= 1000

(* C10: a nonzero matching event leaves with value direction * delta,      *)
(* direction the sign of the raw value and delta speed * trigger_period_ms *)
(* / 1000 truncated (1 when that is 0 and the speed is > 0); so with a     *)
(* positive speed the output has the sign of the raw input.                *)
C10_SpeedToDelta ==
    Moved =>
        /\ ev.value = Sign(ev.raw) *
              (IF ev.speed > 0 /\ ExactDelta(ev.speed, cfg.trigger_period_ms) = 0
               THEN 1
               ELSE ExactDelta(ev.speed, cfg.trigger_period_ms))
        /\ ev.speed > 0 => Sign(ev.value) = Sign(ev.raw)

(* C11: between events, when the activity flag is clear no axis has a     *)
(* last direction: not active implies last_direction == 0 on both axes.    *)
C11_InactiveHasNoDirection ==
    ~data.is_active =>
        (data.last_x_direction = 0 /\ data.last_y_direction = 0)

\* the processor is idle again after a movement that started after time 0
C11_Witness ==
    /\ ~data.is_active /\ ev.path = "stop" /\ data.start_time > 0
    /\ data.last_x_direction = 0 /\ data.last_y_direction = 0

(* C12: a configuration whose curve times are not strictly increasing,   *)
(* whose code set is empty or whose trigger period is zero is rejected at  *)
(* construction: no instance with such a configuration ever handles an     *)
(* event (the latest event is never one its handler saw; at the least,     *)
(* never one it acted on).                                                 *)
ValidConfig(c) ==
    /\ IsCurveTable(c)
    /\ Len(c.codes) > 0
    /\ c.trigger_period_ms > 0

C12_ConstructionValidation ==
    ~ValidConfig(cfg) => ev.path \notin {"move", "stop"}

(* C13: every distinct matched code has its own direction state: an      *)
(* event of one matched code never writes the last direction that belongs  *)
(* to another matched code, for any configured code set.                   *)
C13_AxisResolution ==
    [][ ev'.path \in {"move", "stop"}
        => \A c \in CodeSet(cfg) \ {ev'.code} :
                AxisDirection(data', c) = AxisDirection(data, c)
      ]_vars

(* C13, amended: there are two direction states.  An event of code REL_X   *)
(* writes only last_x_direction and an event of any other matched code     *)
(* writes only last_y_direction; so REL_X and REL_Y never write each       *)
(* other's direction, and all matched codes other than REL_X share one.    *)
C13_TwoDirectionSlots ==
    [][ ev'.path \in {"move", "stop"}
        => /\ ev'.code = INPUT_REL_X =>
                /\ data'.last_y_direction = data.last_y_direction
                /\ data'.last_x_direction = Sign(ev'.raw)
           /\ ev'.code # INPUT_REL_X =>
                /\ data'.last_x_direction = data.last_x_direction
                /\ data'.last_y_direction = Sign(ev'.raw)
      ]_vars

\* an event of a third matched code has set the Y direction; X kept its own
C13_Witness ==
    /\ Moved /\ ev.code = 2 /\ ev.code \in CodeSet(cfg)
    /\ data.last_y_direction = Sign(ev.raw)
    /\ data.last_x_direction = 0 - Sign(ev.raw)

---------------------------------------------------------------------------
(* The ramp: the README's example curve and period, remainders off, under *)
(* a stream of events of one code and positive values, at non-decreasing   *)
(* times up to MaxRampTime milliseconds after the first event.             *)

\* the last instant of the ramp, in ms
MaxRampTime == 300

\* the gaps between two events of the stream, in ms
RampSteps == {1, 16, 100}

\* the uptime at which the stream begins, in ms
RampOrigins == {0, 1000}

\* the skews between the two clock reads of the stream's first event, in ms
RampSkews == {0, 1, 16}

\* the README's example node, without its track-remainders property
RampNode == Node(INPUT_EV_REL, <<INPUT_REL_X, INPUT_REL_Y>>, ReadmeCurve, 16, FALSE)

RampConfig == ZIP_SPEED_CURVE_INST(RampNode)

InitRamp ==
    /\ node = RampNode
    /\ cfg = RampConfig
    /\ data = zip_speed_curve_init
    /\ uptime \in RampOrigins
    /\ ev = NoEvent
    /\ hist = NoHistory
    /\ q = NoQuery

\* time passes between two events of the stream
RampTick ==
    /\ data.is_active
    /\ \E d \in RampSteps :
          /\ uptime + d - data.start_time <= MaxRampTime
          /\ uptime' = uptime + d
    /\ UNCHANGED <<node, cfg, data, ev, hist, q>>

\* one call of zip_speed_curve_handle_event with the next event of the stream
RampEvent ==
    \E code \in {INPUT_REL_X, INPUT_REL_Y}, value \in {1, 5}, skew \in RampSkews :
        /\ ev.path # "none" => code = ev.code
        /\ skew # 0 => rearms(data, code, current_direction(value))
        /\ ev' = handled_event(cfg, data, uptime, INPUT_EV_REL, code, value, skew)
        /\ data' = handled_data(cfg, data, uptime, INPUT_EV_REL, code, value)
        /\ uptime' = uptime + skew
        /\ hist' = hist_after(hist, ev', data, data', node.track_remainders, uptime)
        /\ UNCHANGED <<node, cfg, q>>

NextRamp == RampTick \/ RampEvent

SpecRamp == InitRamp /\ [][NextRamp]_vars

(* C14: with trigger period 16, the curve (0,50) (300,200) (1000,800) and  *)
(* remainders off, a stream of constant-positive events at non-decreasing  *)
(* times in 0..300 ms gives non-decreasing deltas: the first delta is 1    *)
(* and the delta at elapsed 300 ms is 3.  (The first event's elapsed time  *)
(* is what passes between the handler's two clock reads.)                  *)
C14_Ramp ==
    [][ ev'.path = "move"
        => /\ ev'.value > 0
           /\ ev.path = "none" => (ev'.elapsed_ms = ev'.skew /\ ev'.value = 1)
           /\ ev.path = "move" => ev'.value >= ev.value
           /\ ev'.elapsed_ms = 300 => (ev'.speed = 200 /\ ev'.value = 3)
      ]_vars

\* the stream has reached 300 ms after its first event, past deltas 1 and 2
C14_Witness ==
    /\ cfg = RampConfig /\ Moved /\ hist.kind = "continue"
    /\ ev.elapsed_ms = 300 /\ ev.value = 3 /\ data.start_time = 1000

\* the product a * b fits in a signed 32-bit integer
FitsInt32Product(a, b) ==
    \/ b = 0
    \/ /\ MulWrap32(a, b) % b = 0
       /\ MulWrap32(a, b) \div b = a

(* C15: for every configuration the module accepts, the arithmetic of the  *)
(* event path stays inside 32 bits: the product of the speed and the       *)
(* trigger period never wraps.                                             *)
C15_NoArithmeticWrap ==
    Moved => FitsInt32Product(ev.speed, cfg.trigger_period_ms)

(* C16: an event that continues the run of its axis keeps the clock: the   *)
(* start time is unchanged, and the elapsed time is the time since the     *)
(* first event of that run, never negative.  Stated for runs of REL_X.     *)
C16_ContinueKeepsClock ==
    [][ (/\ uptime' = uptime
         /\ ev'.path = "move" /\ ev'.code = INPUT_REL_X
         /\ hist'.kind = "continue")
        => /\ data'.start_time = data.start_time
           /\ ev'.elapsed_ms = uptime' - data'.start_time
           /\ hist'.own_clock
           /\ ev'.elapsed_ms >= 0
      ]_vars

(* C17: a zero-value matching event sets the direction of its axis to 0    *)
(* and clears the activity flag only if both last directions are then 0;   *)
(* if the other axis still has a direction, the flag and the start time    *)
(* are left unchanged.  The event is passed through with value 0.          *)
C17_SharedClockStop ==
    [][ ev'.path = "stop"
        => /\ AxisDirection(data', ev'.code) = 0
           /\ OtherAxisDirection(data', ev'.code)
                 = OtherAxisDirection(data, ev'.code)
           /\ data'.is_active =
                 IF OtherAxisDirection(data', ev'.code) = 0 THEN FALSE
                 ELSE data.is_active
           /\ data'.start_time = data.start_time
           /\ ev'.value = 0 /\ ev'.raw = 0
      ]_vars

\* one axis has stopped while the other is still moving on the running clock
C17_Witness ==
    /\ ev.path = "stop" /\ hist.kind = "stop"
    /\ AxisDirection(data, ev.code) = 0
    /\ OtherAxisDirection(data, ev.code) # 0
    /\ data.is_active /\ uptime > data.start_time

(* C18: after initialization and after every processed event the activity *)
(* flag is true if and only if at least one of the two last directions is  *)
(* nonzero.                                                                *)
C18_ActiveIffMoving ==
    data.is_active <=>
        (data.last_x_direction # 0 \/ data.last_y_direction # 0)

\* a direction change has cleared the flag and re-armed it in the same call,
\* while the other axis is idle
C18_Witness ==
    /\ Moved /\ hist.kind = "reversal" /\ data.is_active
    /\ AxisDirection(data, ev.code) = Sign(ev.raw)
    /\ OtherAxisDirection(data, ev.code) = 0

(* C19: calculate_speed never divides by zero and never reaches its       *)
(* fallback return, for every table with at least one point and every     *)
(* elapsed time, validated or not: when the elapsed time is strictly       *)
(* between the first and the last point's times, the first segment with    *)
(* t0 <= elapsed <= t1 has t1 > t0.                                        *)
C19_NoDivisionByZero ==
    (q.done /\ PointCount(cfg) >= 1)
        => /\ {q.pa, q.pb} \subseteq {"low", "high", "segment"}
           /\ \A e \in {q.a, q.b} :
                (FirstTime(cfg) < e /\ e < LastTime(cfg))
                    => /\ segment_index(cfg, e) >= 0
                       /\ TimeAt(cfg, segment_index(cfg, e) + 2)
                            > TimeAt(cfg, segment_index(cfg, e) + 1)

\* a table with a repeated time, asked at that time and just after it
C19_Witness ==
    /\ q.done /\ cfg.curve_points = <<0, 1, 5, 2, 5, 3, 10, 4>>
    /\ q.a = 5 /\ q.pa = "segment" /\ q.ra = 2
    /\ q.b = 6 /\ q.pb = "segment" /\ q.rb = 3

---------------------------------------------------------------------------
(* Two runs of the handler from one state: every event is handled, and     *)
(* beside it q keeps what the handler would have left for a twin event of  *)
(* the same type and code at the same clock values, whose value has the    *)
(* same sign.                                                              *)

NoTwin == [raw |-> 0, ev |-> NoEvent, data |-> zip_speed_curve_init]

InitTwin ==
    /\ node \in Nodes
    /\ cfg = ZIP_SPEED_CURVE_INST(node)
    /\ data = zip_speed_curve_init
    /\ uptime = 0
    /\ ev = NoEvent
    /\ hist = NoHistory
    /\ q = NoTwin

\* one call of zip_speed_curve_handle_event, and the same call on the twin
TwinEvent ==
    \E e \in Events, twin \in RawValues, skew \in 0..MaxSkew :
        /\ Sign(twin) = Sign(e.value)
        /\ uptime + skew <= MaxTime
        /\ skew # 0 =>
              /\ ~filtered(cfg, e.type, e.code) /\ e.value # 0
              /\ rearms(data, e.code, current_direction(e.value))
        /\ ev' = handled_event(cfg, data, uptime, e.type, e.code, e.value, skew)
        /\ data' = handled_data(cfg, data, uptime, e.type, e.code, e.value)
        /\ q' = [raw |-> twin,
                 ev |-> handled_event(cfg, data, uptime, e.type, e.code, twin, skew),
                 data |-> handled_data(cfg, data, uptime, e.type, e.code, twin)]
        /\ uptime' = uptime + skew
        /\ UNCHANGED <<node, cfg, hist>>

NextTwin == Tick \/ TwinEvent

SpecTwin == InitTwin /\ [][NextTwin]_vars

\* the latest event and its twin had nonzero values of different magnitudes
TwinsDiffer == ev.path # "none" /\ ev.raw # 0 /\ q.raw # ev.raw

(* C20: the emitted value depends on the raw value only through its sign:  *)
(* from one state and one clock value, two events of the same type and     *)
(* code whose nonzero values have the same sign and different magnitudes   *)
(* give the same output value and the same next state.                     *)
C20_SignOnly ==
    TwinsDiffer => (q.ev.value = ev.value /\ q.data = data)

(* C20, amended: the same, for events that the handler does not filter     *)
(* out, i.e. whose type is the configured type and whose code is one of    *)
(* the configured codes.                                                   *)
C20_SignOnlyWhenMatched ==
    (TwinsDiffer /\ ev.path # "pass")
        => (q.ev.value = ev.value /\ q.data = data)

\* in the middle of a ramp, the values +1 and +5 have both left as the same
\* delta, larger than 1
C20_Witness ==
    /\ Moved /\ ev.raw = 1 /\ q.raw = 5 /\ ev.elapsed_ms > 0
    /\ ev.value > 1 /\ q.ev.value = ev.value /\ q.data = data

===========================================================================
